---- MODULE Spec2Model ----
(***************************************************************************)
(* Model of the psychoacoustic loudness correction                          *)
(* (src/temporary/psychoacoustic_correction.cpp,                            *)
(*  src/temporary/psychoacoustic_example.cpp).                              *)
(*                                                                          *)
(* Numbers.  The code computes in float.  The model computes in fixed       *)
(* point, rounding to nearest after every multiplication and division, as   *)
(* float arithmetic rounds after every operation:                           *)
(*   frequencies        tenths of a hertz                                   *)
(*   phon, SPL, dB      tenths of a unit                                    *)
(*   linear gains, factors, ratios   thousandths (ONE = 1.0)                *)
(*   spectrum parts     integers                                            *)
(* Vectors and arrays are functions on 0..n-1, so indices are the code's.   *)
(***************************************************************************)
EXTENDS Integers, Sequences, FiniteSets, TLC

\* ------------------------------------------------------------------ bounds
\* The transform sizes of the model are 4 .. 2^MaxFftOrder (the code's
\* processor uses fftOrder = 11).
MaxFftOrder == 3
\* Number of gain updates (control-path calls) a behaviour may perform.
MaxUpdates == 2

\* ------------------------------------------------------- fixed-point units
ONE == 1000

Abs(a) == IF a < 0 THEN -a ELSE a

\* a / b rounded to nearest (b > 0), the rounding of a float operation.
RDiv(a, b) == IF a >= 0 THEN (2 * a + b) \div (2 * b)
                         ELSE -((2 * (-a) + b) \div (2 * b))

\* Product of two thousandths-scaled numbers (or of a number and a factor).
Mul(a, b) == RDiv(a * b, ONE)

\* std::clamp(v, lo, hi)
clamp(v, lo, hi) == IF v < lo THEN lo ELSE IF hi < v THEN hi ELSE v

\* v.size() of a vector
size(v) == Cardinality(DOMAIN v)

\* std::vector<float>(n, x)
Filled(n, x) == [k \in 0 .. n - 1 |-> x]

\* ------------------------------------------------------------------ tables
NUM_FREQUENCIES == 29

FrequencyData ==
  <<200, 250, 315, 400, 500, 630, 800, 1000, 1250, 1600, 2000, 2500, 3150,
    4000, 5000, 6300, 8000, 10000, 12500, 16000, 20000, 25000, 31500, 40000,
    50000, 63000, 80000, 100000, 125000>>

\* FREQUENCIES[i], i in 0..28, in tenths of a hertz
FREQUENCIES == [i \in 0 .. NUM_FREQUENCIES - 1 |-> FrequencyData[i + 1]]

NUM_PHON_LEVELS == 11

\* PHON_LEVELS[j], j in 0..10, in tenths of a phon
PHON_LEVELS == [j \in 0 .. NUM_PHON_LEVELS - 1 |-> 100 * j]

\* The four initializer rows of ISO226_SPL, in tenths of a dB.
SplRow0 ==
  <<743, 650, 563, 484, 417, 355, 298, 251, 207, 168, 138, 112, 89, 72, 60,
    50, 44, 42, 37, 26, 10, -12, -36, -39, -11, 43, 111, 153, 164>>
SplRow1 ==
  <<832, 743, 659, 580, 514, 455, 400, 352, 310, 270, 237, 211, 188, 170,
    157, 146, 138, 134, 130, 126, 118, 106, 89, 79, 96, 144, 207, 247, 256>>
SplRow2 ==
  <<998, 931, 865, 800, 741, 687, 636, 589, 545, 504, 466, 431, 399, 371,
    346, 324, 304, 290, 278, 266, 255, 239, 220, 205, 213, 254, 313, 354,
    366>>
SplRow3 ==
  <<1095, 1037, 980, 926, 874, 825, 778, 734, 692, 652, 614, 578, 545, 514,
    486, 460, 435, 415, 400, 385, 372, 355, 335, 316, 322, 360, 417, 458,
    471>>

\* ISO226_SPL[j][i]: the array has NUM_PHON_LEVELS rows but only four
\* initializers (commented 0, 10, 40 and 60 phon); aggregate initialization
\* zero-fills rows 4..10.
ISO226_SPL ==
  [j \in 0 .. NUM_PHON_LEVELS - 1 |->
    [i \in 0 .. NUM_FREQUENCIES - 1 |->
      CASE j = 0 -> SplRow0[i + 1]
        [] j = 1 -> SplRow1[i + 1]
        [] j = 2 -> SplRow2[i + 1]
        [] j = 3 -> SplRow3[i + 1]
        [] OTHER -> 0]]

\* ------------------------------------------- PsychoacousticCorrection (pure)
\* The loop of interpolatePhonToSPL that finds freqIdx: the first i with
\* FREQUENCIES[i] <= frequency <= FREQUENCIES[i+1], 0 when there is none.
RECURSIVE FindFreqIdx(_, _)
FindFreqIdx(frequency, i) ==
  IF i >= NUM_FREQUENCIES - 1 THEN 0
  ELSE IF frequency >= FREQUENCIES[i] /\ frequency <= FREQUENCIES[i + 1]
       THEN i
       ELSE FindFreqIdx(frequency, i + 1)

\* The phon row the code selects: 2, or 3 when phonLevel > 50.
PhonIdxSwapped(phonLevel) == IF phonLevel > 500 THEN 2 ELSE 3
PhonIdx(phonLevel) == IF phonLevel > 500 THEN 3 ELSE 2

interpolatePhonToSPL(frequency, phonLevel) ==
  LET freqIdx == FindFreqIdx(frequency, 0)
      phonIdx == PhonIdx(phonLevel)
      f1 == FREQUENCIES[freqIdx]
      f2 == FREQUENCIES[freqIdx + 1]
      spl1 == ISO226_SPL[phonIdx][freqIdx]
      spl2 == ISO226_SPL[phonIdx][freqIdx + 1]
      ratio == RDiv((frequency - f1) * ONE, f2 - f1)
  IN  spl1 + Mul(ratio, spl2 - spl1)

calculateCorrectionCurveSum(currentPhon, targetPhon) ==
  [i \in 0 .. NUM_FREQUENCIES - 1 |->
     interpolatePhonToSPL(FREQUENCIES[i], targetPhon)
       + interpolatePhonToSPL(FREQUENCIES[i], currentPhon)]

calculateCorrectionCurve(currentPhon, targetPhon) ==
  [i \in 0 .. NUM_FREQUENCIES - 1 |->
     LET currentSPL == interpolatePhonToSPL(FREQUENCIES[i], currentPhon)
         targetSPL == interpolatePhonToSPL(FREQUENCIES[i], targetPhon)
     IN  targetSPL - currentSPL]

\* 10^(2^k / 200) in thousandths, k = 0..8: the factors of std::pow(10, x/20)
\* for x a whole number of tenths of a dB.
PowTable == <<1012, 1023, 1047, 1096, 1202, 1445, 2089, 4365, 19055>>

RECURSIVE PowBits(_, _)
PowBits(n, k) ==
  IF n = 0 THEN ONE
  ELSE LET rest == PowBits(n \div 2, k + 1)
       IN  IF n % 2 = 1 THEN Mul(rest, PowTable[k + 1]) ELSE rest

\* std::pow(10.0f, gainDB / 20.0f): dB (tenths) to linear gain (thousandths)
DbToLinear(gainDB) ==
  IF gainDB >= 0 THEN PowBits(gainDB, 0)
  ELSE RDiv(ONE * ONE, PowBits(-gainDB, 0))

\* Frequency of a bin: (float)bin * sampleRate / fftSize, tenths of a hertz
BinFreq(bin, sr, fftSz) == RDiv(bin * sr * 10, fftSz)

\* The while loop of convertToFFTBins that finds idx.
RECURSIVE FindIdx(_, _)
FindIdx(idx, freq) ==
  IF idx < NUM_FREQUENCIES - 1 /\ FREQUENCIES[idx + 1] < freq
  THEN FindIdx(idx + 1, freq)
  ELSE idx

\* The gain convertToFFTBins gives one bin.
BinGain(correctionCurve, freq) ==
  LET idx == FindIdx(0, freq)
  IN  IF idx < NUM_FREQUENCIES - 1
      THEN LET f1 == FREQUENCIES[idx]
               f2 == FREQUENCIES[idx + 1]
               g1 == correctionCurve[idx]
               g2 == correctionCurve[idx + 1]
               ratio == RDiv((freq - f1) * ONE, f2 - f1)
               gainDB == g1 + Mul(ratio, g2 - g1)
           IN  DbToLinear(gainDB)
      ELSE ONE

convertToFFTBinsShort(correctionCurve, sr, fftSz) ==
  LET numBins == fftSz \div 2
  IN  [bin \in 0 .. numBins - 1 |->
         BinGain(correctionCurve, BinFreq(bin, sr, fftSz))]

convertToFFTBins(correctionCurve, sr, fftSz) ==
  LET numBins == fftSz \div 2 + 1
  IN  [bin \in 0 .. numBins - 1 |->
         BinGain(correctionCurve, BinFreq(bin, sr, fftSz))]

\* Read of v[i]; an index past the end of the vector is undefined behaviour
\* and yields whatever lies there (oob).
At(v, i, oob) == IF i \in DOMAIN v THEN v[i] ELSE oob

smoothTransitionSwapped(newGains, currentGains, smoothingFactor, oob) ==
  [i \in DOMAIN newGains |->
     Mul(At(currentGains, i, oob), ONE - smoothingFactor)
       + Mul(newGains[i], smoothingFactor)]

\* smoothTransition: the value of newGains after the call.
smoothTransition(newGains, currentGains, smoothingFactor, oob) ==
  [i \in DOMAIN newGains |->
     Mul(At(currentGains, i, oob), smoothingFactor)
       + Mul(newGains[i], ONE - smoothingFactor)]

\* std::conj
conj(z) == <<z[1], -z[2]>>

\* complex<float> *= float
Scale(z, gain) == <<Mul(z[1], gain), Mul(z[2], gain)>>

\* One iteration of the loop of applyCorrection.
ApplyBinNoConj(spectrum, gains, adaptiveFactor, fftSz, bin, oob) ==
  LET numBins == fftSz \div 2 + 1
      gain == ONE + Mul(At(gains, bin, oob) - ONE, adaptiveFactor)
      scaled == [spectrum EXCEPT ![bin] = Scale(spectrum[bin], gain)]
  IN  IF bin > 0 /\ bin < numBins - 1
      THEN [scaled EXCEPT ![fftSz - bin] = scaled[bin]]
      ELSE scaled

ApplyBinFull(spectrum, gains, adaptiveFactor, fftSz, bin, oob) ==
  LET numBins == fftSz \div 2 + 1
      gain == At(gains, bin, oob)
      scaled == [spectrum EXCEPT ![bin] = Scale(spectrum[bin], gain)]
  IN  IF bin > 0 /\ bin < numBins - 1
      THEN [scaled EXCEPT ![fftSz - bin] = conj(scaled[bin])]
      ELSE scaled

ApplyBin(spectrum, gains, adaptiveFactor, fftSz, bin, oob) ==
  LET numBins == fftSz \div 2 + 1
      gain == ONE + Mul(At(gains, bin, oob) - ONE, adaptiveFactor)
      scaled == [spectrum EXCEPT ![bin] = Scale(spectrum[bin], gain)]
  IN  IF bin > 0 /\ bin < numBins - 1
      THEN [scaled EXCEPT ![fftSz - bin] = conj(scaled[bin])]
      ELSE scaled

RECURSIVE ApplyFrom(_, _, _, _, _, _)
ApplyFrom(spectrum, gains, adaptiveFactor, fftSz, bin, oob) ==
  IF bin >= fftSz \div 2 + 1 THEN spectrum
  ELSE ApplyFrom(ApplyBin(spectrum, gains, adaptiveFactor, fftSz, bin, oob),
                 gains, adaptiveFactor, fftSz, bin + 1, oob)

\* applyCorrection: the value of the spectrum buffer after the call.
applyCorrection(spectrum, gains, adaptiveFactor, fftSz, oob) ==
  ApplyFrom(spectrum, gains, adaptiveFactor, fftSz, 0, oob)

\* ------------------------------------------ OptimizedPsychoacousticEQ (pure)
\* calculateSimplifiedCorrection: gains in tenths of a dB.
calculateSimplifiedCorrection(currentPhon, targetPhon) ==
  LET phonDiff == targetPhon - currentPhon
      compensationFactor == 400
  IN  [bassGain   |-> clamp(Mul(Mul(phonDiff, 800), compensationFactor), -60, 60),
       midGain    |-> clamp(Mul(Mul(phonDiff, 100), compensationFactor), -20, 20),
       trebleGain |-> clamp(Mul(Mul(phonDiff, 300), compensationFactor), -30, 30)]

\* std::tanh of a thousandths-scaled x >= 0 (continued fraction, saturating)
Tanh(x) ==
  IF x >= 4000 THEN ONE
  ELSE LET x2 == Mul(x, x)
           t4 == 7000 + RDiv(x2 * ONE, 9000)
           t3 == 5000 + RDiv(x2 * ONE, t4)
           t2 == 3000 + RDiv(x2 * ONE, t3)
           t1 == 1000 + RDiv(x2 * ONE, t2)
           r == RDiv(x * ONE, t1)
       IN  IF r > ONE THEN ONE ELSE r

\* getAdaptiveCompensationFactor(listeningDuration), seconds to thousandths
getAdaptiveCompensationFactor(listeningDuration) ==
  LET minutes == RDiv(listeningDuration * ONE, 60)
      factor == 500 - Mul(300, Tanh(RDiv(minutes, 10)))
  IN  clamp(factor, 200, 500)

\* ------------------------------------------------------------------- state
VARIABLES
  host,               \* the class the program instantiated (see Hosts)
  sampleRate,         \* PsychoacousticCorrection::sampleRate (hertz)
  fftSize,            \* PsychoacousticCorrection::fftSize
  currentGains,       \* AdaptiveLoudnessEQ / PsychoacousticProcessor::currentGains
  currentNoiseFloor,  \* PsychoacousticProcessor / SimplePsychoacousticEQ
  currentPhon,        \* AdaptiveLoudnessEQ / SimplePsychoacousticEQ
  targetPhon,         \* AdaptiveLoudnessEQ / Processor / SimplePsychoacousticEQ
  eq,                 \* the band gains SimplePsychoacousticEQ::updateFilters set
  call,               \* the last finished call: its inputs and its results
  ctl,                \* control path of the processor (updateCorrectionCurve)
  aud,                \* audio path of the processor (processFFTBlock)
  gainsVer,           \* for each element of currentGains, the update that wrote it
  updates             \* number of gain updates started so far

vars == <<host, sampleRate, fftSize, currentGains, currentNoiseFloor,
          currentPhon, targetPhon, eq, call, ctl, aud, gainsVer, updates>>

\* "Correction": PsychoacousticCorrection and OptimizedPsychoacousticEQ used
\* directly through their public methods; the other three are the classes
\* that own one.
Hosts == {"Correction", "AdaptiveLoudnessEQ", "Processor", "SimpleEQ"}

\* ------------------------------------------------------------------ inputs
SampleRates == {160, 48000}
FftSizes == {2 ^ k : k \in 2 .. MaxFftOrder}
\* PsychoacousticCorrection(float sr = 48000.0f, int fftSz = 2048)
DefaultFftSize == 2 ^ MaxFftOrder
\* currentGains(1025, 1.0f): 2048 FFT = 1025 bins
EqNumBins == 2 ^ (MaxFftOrder - 1) + 1
\* fftSize = 1 << fftOrder; one order below the largest size, because every
\* bin is a step of the control path and a step of the audio path.
ProcFftSize == 2 ^ (MaxFftOrder - 1)

\* phon levels (tenths), inside and outside 0..100, on and off the table
PhonInputs == {-100, 0, 100, 200, 300, 400, 450, 500, 501, 600, 700, 800,
               900, 1000, 1100}
TableFrequencies == {FREQUENCIES[i] : i \in 0 .. NUM_FREQUENCIES - 1}
CurveInputs == {calculateCorrectionCurve(400, 600),
                calculateCorrectionCurve(600, 400),
                calculateCorrectionCurve(400, 400),
                [i \in 0 .. NUM_FREQUENCIES - 1 |-> 10 * i - 100]}
GainValues == {500, 1000, 1025}
VectorInputs == UNION {[0 .. n - 1 -> GainValues] : n \in 1 .. 2}
SmoothingFactors == {0, 500, 950, 980, 1000}
AdaptiveFactors == {0, 500, 1000}
\* what a read past the end of a vector may find
Garbage == {0, 3000}
Cplx == {<<1000, 0>>, <<300, 400>>, <<300, -400>>}
SpectrumInputs(n) ==
  {[k \in 0 .. n - 1 |-> IF k = i THEN z1 ELSE IF k = j THEN z2 ELSE base] :
     i \in 0 .. n - 1, j \in 1 .. n - 1, z1 \in Cplx, z2 \in Cplx, base \in Cplx}
GainsInputs(n) ==
  LET numBins == n \div 2 + 1
  IN  {Filled(numBins, ONE), [k \in 0 .. numBins - 1 |-> 500 + 250 * k],
       Filled(numBins - 1, 2000), Filled(numBins + 1, 2000)}
ListeningDurations == {0, 208, 300, 900, 36000}
NoiseInputs == {400, 450}
TargetInputs == {450, 520}
PlaybackInputs == {400, 470, 480, 520}
ProcSpectra == {[k \in 0 .. ProcFftSize - 1 |-> <<1000, 0>>],
                [k \in 0 .. ProcFftSize - 1 |-> <<100 * k, 10 * k - 20>>]}

NoCall == [op |-> "none"]
CtlIdle == [pc |-> "idle", i |-> 0, newGains |-> Filled(0, ONE),
            incoming |-> Filled(0, ONE), active |-> Filled(0, ONE)]
AudIdle == [pc |-> "idle", bin |-> 0, spectrum |-> Filled(0, <<0, 0>>),
            seen |-> <<>>]
FlatEq == [bassGain |-> 0, midGain |-> 0, trebleGain |-> 0]

\* --------------------------------------------------------------------- Init
Init ==
  /\ host \in Hosts
  /\ call = NoCall
  /\ ctl = CtlIdle
  /\ aud = AudIdle
  /\ updates = 0
  /\ eq = FlatEq
  /\ CASE host = "Correction" ->
            /\ sampleRate \in SampleRates
            /\ fftSize \in FftSizes
            /\ currentGains = Filled(0, ONE)
            /\ currentNoiseFloor = 0 /\ currentPhon = 0 /\ targetPhon = 0
       [] host = "AdaptiveLoudnessEQ" ->
            /\ sampleRate \in SampleRates
            /\ fftSize = DefaultFftSize
            /\ currentGains = Filled(EqNumBins, ONE)
            /\ currentNoiseFloor = 0 /\ currentPhon = 400 /\ targetPhon = 600
       [] host = "Processor" ->
            /\ sampleRate = 48000
            /\ fftSize = ProcFftSize
            /\ currentGains = Filled(ProcFftSize \div 2 + 1, ONE)
            /\ currentNoiseFloor = 400 /\ currentPhon = 0 /\ targetPhon = 520
       [] host = "SimpleEQ" ->
            /\ sampleRate = 48000
            /\ fftSize = DefaultFftSize
            /\ currentGains = Filled(0, ONE)
            /\ currentNoiseFloor = 400 /\ currentPhon = 480 /\ targetPhon = 530
  /\ gainsVer = [k \in DOMAIN currentGains |-> 0]

\* Variables a direct call on a corrector or optimizer leaves alone.
CallFrame == UNCHANGED <<host, sampleRate, fftSize, currentGains,
                         currentNoiseFloor, currentPhon, targetPhon, eq, ctl,
                         aud, gainsVer, updates>>

\* ----------------------------- direct calls on PsychoacousticCorrection
\* The methods of PsychoacousticCorrection and OptimizedPsychoacousticEQ read
\* only their arguments and the two constructor fields and write no member,
\* so a behaviour of this host is one call on a constructed object.
DirectCall == host = "Correction" /\ call = NoCall

InterpolatePhonToSPL ==
  /\ DirectCall
  /\ \E frequency \in TableFrequencies, phonLevel \in PhonInputs :
       call' = [op |-> "interpolatePhonToSPL", frequency |-> frequency,
                phonLevel |-> phonLevel,
                result |-> interpolatePhonToSPL(frequency, phonLevel)]
  /\ CallFrame

CalculateCorrectionCurve ==
  /\ DirectCall
  /\ \E cp \in PhonInputs, tp \in PhonInputs :
       call' = [op |-> "calculateCorrectionCurve", currentPhon |-> cp,
                targetPhon |-> tp,
                result |-> calculateCorrectionCurve(cp, tp)]
  /\ CallFrame

ConvertToFFTBins ==
  /\ DirectCall
  /\ \E correctionCurve \in CurveInputs :
       call' = [op |-> "convertToFFTBins", correctionCurve |-> correctionCurve,
                result |-> convertToFFTBins(correctionCurve, sampleRate, fftSize)]
  /\ CallFrame

\* smoothTransition(newGains, currentGains, smoothingFactor); newGainsIn is
\* newGains before the call, newGains after it.  The loop runs over
\* newGains.size() and reads currentGains[i] unchecked.
SmoothTransition ==
  /\ DirectCall
  /\ \E newGains \in VectorInputs, cur \in VectorInputs,
        smoothingFactor \in SmoothingFactors, oob \in Garbage :
       LET past == size(cur) < size(newGains)
       IN  /\ (~past => oob = 0)
           /\ call' = [op |-> "smoothTransition", newGainsIn |-> newGains,
                       currentGains |-> cur,
                       smoothingFactor |-> smoothingFactor,
                       newGains |-> smoothTransition(newGains, cur,
                                                     smoothingFactor, oob),
                       readPastEnd |-> past]
  /\ CallFrame

\* applyCorrection(spectrum, gains, adaptiveFactor); spectrumIn is the buffer
\* before the call, spectrum after it.  gains[bin] is read unchecked for
\* bin in 0 .. fftSize/2.
ApplyCorrection ==
  /\ DirectCall
  /\ \E spectrum \in SpectrumInputs(fftSize), gains \in GainsInputs(fftSize),
        adaptiveFactor \in AdaptiveFactors, oob \in Garbage :
       LET past == size(gains) < fftSize \div 2 + 1
       IN  /\ (~past => oob = 0)
           /\ call' = [op |-> "applyCorrection", spectrumIn |-> spectrum,
                       gains |-> gains, adaptiveFactor |-> adaptiveFactor,
                       spectrum |-> applyCorrection(spectrum, gains,
                                                    adaptiveFactor, fftSize, oob),
                       readPastEnd |-> past]
  /\ CallFrame

\* ---------------------------- direct calls on OptimizedPsychoacousticEQ
CalculateSimplifiedCorrection ==
  /\ DirectCall
  /\ \E cp \in PhonInputs, tp \in PhonInputs :
       call' = [op |-> "calculateSimplifiedCorrection", currentPhon |-> cp,
                targetPhon |-> tp,
                result |-> calculateSimplifiedCorrection(cp, tp)]
  /\ CallFrame

GetAdaptiveCompensationFactor ==
  /\ DirectCall
  /\ \E listeningDuration \in ListeningDurations :
       call' = [op |-> "getAdaptiveCompensationFactor",
                listeningDuration |-> listeningDuration,
                result |-> getAdaptiveCompensationFactor(listeningDuration)]
  /\ CallFrame

\* ------------------------------------------------------ AdaptiveLoudnessEQ
\* updateEnvironment(noiseFloorDB, playbackLevelDB); call keeps the vector
\* convertToFFTBins returned (incoming) and currentGains before the call
\* (active).
UpdateEnvironment ==
  /\ host = "AdaptiveLoudnessEQ"
  /\ updates < MaxUpdates
  /\ \E noiseFloorDB \in NoiseInputs, playbackLevelDB \in PlaybackInputs :
       LET correctionDB == calculateCorrectionCurve(playbackLevelDB,
                                                    playbackLevelDB + 50)
           incoming == convertToFFTBins(correctionDB, sampleRate, fftSize)
           newGains == smoothTransition(incoming, currentGains, 980, 0)
       IN  /\ currentPhon' = playbackLevelDB
           /\ targetPhon' = playbackLevelDB + 50
           /\ currentGains' = newGains
           /\ gainsVer' = [k \in DOMAIN newGains |-> updates + 1]
           /\ call' = [op |-> "updateEnvironment", incoming |-> incoming,
                       active |-> currentGains, smoothingFactor |-> 980]
  /\ updates' = updates + 1
  /\ UNCHANGED <<host, sampleRate, fftSize, currentNoiseFloor, eq, ctl, aud>>

\* processAudioBlock: the local spectrum[2048] is value-initialized (the
\* transform calls are comments), corrected with the default factor 1.0 and
\* dropped.
ProcessAudioBlock ==
  /\ host = "AdaptiveLoudnessEQ"
  /\ call' = [op |-> "processAudioBlock",
              spectrum |-> applyCorrection(Filled(DefaultFftSize, <<0, 0>>),
                                           currentGains, ONE, fftSize, 0)]
  /\ CallFrame

\* -------------------------------------------------- PsychoacousticProcessor
\* updateCorrectionCurve up to the assignment currentGains = newGains: the
\* locals the assignment then copies from.
UpdateLocals(noise, target, sr) ==
  LET currentPhonL == noise + 80
      correctionDB == calculateCorrectionCurve(currentPhonL, target)
      incoming == convertToFFTBins(correctionDB, sr, fftSize)
  IN  [pc |-> "assign", i |-> 0,
       newGains |-> smoothTransition(incoming, currentGains, 990, 0),
       incoming |-> incoming, active |-> currentGains]

\* prepareToPlay: the host calls it before playback, never during a block.
PrepareToPlay ==
  /\ host = "Processor"
  /\ ctl.pc = "idle" /\ aud.pc = "idle"
  /\ updates < MaxUpdates
  /\ \E sr \in SampleRates :
       LET u == UpdateLocals(currentNoiseFloor, targetPhon, sr)
       IN  /\ sampleRate' = sr
           /\ currentGains' = u.newGains
           /\ gainsVer' = [k \in DOMAIN u.newGains |-> updates + 1]
           /\ call' = [op |-> "updateCorrectionCurve", incoming |-> u.incoming,
                       active |-> u.active, smoothingFactor |-> 990]
  /\ updates' = updates + 1
  /\ UNCHANGED <<host, fftSize, currentNoiseFloor, currentPhon, targetPhon,
                 eq, ctl, aud>>

\* setNoiseFloor, called from the GUI or automation while audio runs: stores
\* the atomic and runs updateCorrectionCurve up to the assignment.
SetNoiseFloor ==
  /\ host = "Processor"
  /\ ctl.pc = "idle"
  /\ updates < MaxUpdates
  /\ \E noiseDB \in NoiseInputs :
       /\ currentNoiseFloor' = noiseDB
       /\ ctl' = UpdateLocals(noiseDB, targetPhon, sampleRate)
  /\ updates' = updates + 1
  /\ UNCHANGED <<host, sampleRate, fftSize, currentGains, currentPhon,
                 targetPhon, eq, call, aud, gainsVer>>

SetTargetPhon ==
  /\ host = "Processor"
  /\ ctl.pc = "idle"
  /\ updates < MaxUpdates
  /\ \E phon \in TargetInputs :
       /\ targetPhon' = phon
       /\ ctl' = UpdateLocals(currentNoiseFloor, phon, sampleRate)
  /\ updates' = updates + 1
  /\ UNCHANGED <<host, sampleRate, fftSize, currentGains, currentNoiseFloor,
                 currentPhon, eq, call, aud, gainsVer>>

\* currentGains = newGains: the sizes are equal, so the copy assignment
\* overwrites the elements of currentGains in place, one after another, with
\* no synchronization against the audio path.
AssignGains ==
  /\ host = "Processor"
  /\ ctl.pc = "assign"
  /\ IF size(ctl.newGains) = size(currentGains)
     THEN /\ currentGains' = [currentGains EXCEPT ![ctl.i] = ctl.newGains[ctl.i]]
          /\ gainsVer' = [gainsVer EXCEPT ![ctl.i] = updates]
     ELSE \* other size: the assignment resizes, currentGains takes the
          \* size of newGains
          /\ currentGains' = [k \in DOMAIN ctl.newGains |->
                                IF k <= ctl.i \/ k \notin DOMAIN currentGains
                                THEN ctl.newGains[k] ELSE currentGains[k]]
          /\ gainsVer' = [k \in DOMAIN ctl.newGains |->
                            IF k <= ctl.i \/ k \notin DOMAIN gainsVer
                            THEN updates ELSE gainsVer[k]]
  /\ IF ctl.i + 1 < size(ctl.newGains)
     THEN /\ ctl' = [ctl EXCEPT !.i = ctl.i + 1]
          /\ call' = call
     ELSE /\ ctl' = CtlIdle
          /\ call' = [op |-> "updateCorrectionCurve",
                      incoming |-> ctl.incoming, active |-> ctl.active,
                      smoothingFactor |-> 990]
  /\ UNCHANGED <<host, sampleRate, fftSize, currentNoiseFloor, currentPhon,
                 targetPhon, eq, aud, updates>>

\* processBlock reaching processFFTBlock: the forward transform (external)
\* delivers complexData, and applyPsychoacousticCorrection starts on it.
ProcessFFTBlock ==
  /\ host = "Processor"
  /\ aud.pc = "idle"
  /\ \E complexData \in ProcSpectra :
       aud' = [pc |-> "apply", bin |-> 0, spectrum |-> complexData,
               seen |-> <<>>]
  /\ UNCHANGED <<host, sampleRate, fftSize, currentGains, currentNoiseFloor,
                 currentPhon, targetPhon, eq, call, ctl, gainsVer, updates>>

\* One iteration of the loop of applyCorrection(spectrum, currentGains, 1.0f)
\* on the audio path; seen records which update wrote the element it read.
ApplyCorrectionStep ==
  /\ host = "Processor"
  /\ aud.pc = "apply"
  /\ aud.bin < fftSize \div 2 + 1
  /\ aud' = [aud EXCEPT
               !.spectrum = ApplyBin(aud.spectrum, currentGains, ONE, fftSize,
                                     aud.bin, 0),
               !.seen = Append(aud.seen, gainsVer[aud.bin]),
               !.bin = aud.bin + 1]
  /\ UNCHANGED <<host, sampleRate, fftSize, currentGains, currentNoiseFloor,
                 currentPhon, targetPhon, eq, call, ctl, gainsVer, updates>>

\* applyCorrection returns; the inverse transform and overlap-add (external)
\* consume the corrected block and processFFTBlock returns.
ProcessFFTBlockDone ==
  /\ host = "Processor"
  /\ aud.pc = "apply"
  /\ aud.bin = fftSize \div 2 + 1
  /\ aud' = AudIdle
  /\ UNCHANGED <<host, sampleRate, fftSize, currentGains, currentNoiseFloor,
                 currentPhon, targetPhon, eq, call, ctl, gainsVer, updates>>

\* --------------------------------------------------- SimplePsychoacousticEQ
\* updateFilters: the three filter gains come from
\* calculateSimplifiedCorrection(currentPhon, targetPhon).
updateFilters(cp, tp) == calculateSimplifiedCorrection(cp, tp)

SimplePrepareToPlay ==
  /\ host = "SimpleEQ"
  /\ eq' = updateFilters(currentPhon, targetPhon)
  /\ call' = [op |-> "SimplePsychoacousticEQ::prepareToPlay"]
  /\ UNCHANGED <<host, sampleRate, fftSize, currentGains, currentNoiseFloor,
                 currentPhon, targetPhon, ctl, aud, gainsVer, updates>>

SimpleUpdateEnvironment ==
  /\ host = "SimpleEQ"
  /\ \E noiseDB \in PhonInputs :
       /\ currentNoiseFloor' = noiseDB
       /\ currentPhon' = noiseDB + 80
       /\ targetPhon' = noiseDB + 80 + 50
       /\ eq' = updateFilters(noiseDB + 80, noiseDB + 80 + 50)
  /\ call' = [op |-> "SimplePsychoacousticEQ::updateEnvironment"]
  /\ UNCHANGED <<host, sampleRate, fftSize, currentGains, ctl, aud, gainsVer,
                 updates>>

\* --------------------------------------------------------------------- Next
Next ==
  \/ InterpolatePhonToSPL
  \/ CalculateCorrectionCurve
  \/ ConvertToFFTBins
  \/ SmoothTransition
  \/ ApplyCorrection
  \/ CalculateSimplifiedCorrection
  \/ GetAdaptiveCompensationFactor
  \/ UpdateEnvironment
  \/ ProcessAudioBlock
  \/ PrepareToPlay
  \/ SetNoiseFloor
  \/ SetTargetPhon
  \/ AssignGains
  \/ ProcessFFTBlock
  \/ ApplyCorrectionStep
  \/ ProcessFFTBlockDone
  \/ SimplePrepareToPlay
  \/ SimpleUpdateEnvironment

Spec == Init /\ [][Next]_vars

\* ------------------------------------------------------------------ claims
NumBins == fftSize \div 2 + 1

\* spectrum[fftSize-k] = conj(spectrum[k]) for every 0 < k < fftSize/2
Hermitian(spectrum) ==
  \A k \in 1 .. fftSize \div 2 - 1 : spectrum[fftSize - k] = conj(spectrum[k])

\* C1: after applyCorrection returns (called directly with a gains vector of
\* length fftSize/2+1, or run to its end on the audio path of the processor),
\* spectrum[fftSize-k] is exactly the conjugate of spectrum[k] for every bin
\* 0 < k < fftSize/2, whatever the input spectrum, gains and adaptiveFactor.
C1_Symmetry ==
  /\ (call.op = "applyCorrection" /\ size(call.gains) = NumBins)
       => Hermitian(call.spectrum)
  /\ (host = "Processor" /\ aud.bin = NumBins) => Hermitian(aud.spectrum)

\* A call on a spectrum that was not symmetric, with gains that are not all
\* unity, applied in full, and with an imaginary part to conjugate.
C1_Witness ==
  /\ call.op = "applyCorrection"
  /\ size(call.gains) = NumBins
  /\ call.adaptiveFactor = ONE
  /\ ~Hermitian(call.spectrumIn)
  /\ \E k \in 1 .. fftSize \div 2 - 1 :
       call.spectrum[k][2] # 0 /\ call.spectrum[k] # call.spectrumIn[k]

\* C2: on the audio path, the gains one run of applyCorrection reads all come
\* from one published gain vector: the run never sees some elements written
\* by one update and others written by another (or by none).
C2_WholeVectorSeen ==
  \A a \in 1 .. Len(aud.seen), b \in 1 .. Len(aud.seen) :
    aud.seen[a] = aud.seen[b]

\* C3: convertToFFTBins gives gain 1.0 to every bin whose frequency is below
\* the first table frequency or above the last one.
C3_UnityOutsideTable ==
  call.op = "convertToFFTBins" =>
    \A bin \in DOMAIN call.result :
      LET freq == BinFreq(bin, sampleRate, fftSize)
      IN  (freq < FREQUENCIES[0] \/ freq > FREQUENCIES[NUM_FREQUENCIES - 1])
            => call.result[bin] = ONE

\* C4: at a table frequency FREQUENCIES[i] and a table phon level
\* PHON_LEVELS[j], interpolatePhonToSPL returns ISO226_SPL[j][i].
C4_TableExact ==
  call.op = "interpolatePhonToSPL" =>
    \A i \in 0 .. NUM_FREQUENCIES - 1, j \in 0 .. NUM_PHON_LEVELS - 1 :
      (call.frequency = FREQUENCIES[i] /\ call.phonLevel = PHON_LEVELS[j])
        => call.result = ISO226_SPL[j][i]

\* C5: calculateCorrectionCurve(p, p) has NUM_FREQUENCIES entries, all 0.
C5_ZeroCorrection ==
  (call.op = "calculateCorrectionCurve" /\ call.currentPhon = call.targetPhon)
    => /\ DOMAIN call.result = 0 .. NUM_FREQUENCIES - 1
       /\ size(call.result) = 29
       /\ \A i \in DOMAIN call.result : call.result[i] = 0

\* The call with equal levels above the table (110 phon).
C5_Witness ==
  /\ call.op = "calculateCorrectionCurve"
  /\ call.currentPhon = 1100
  /\ call.targetPhon = 1100

\* C6: a smoothTransition whose two vectors differ in size, and an
\* applyCorrection whose gains are not fftSize/2+1 long, change nothing and
\* read nothing past the end of a vector.
C6_RejectsMismatch ==
  /\ (call.op = "smoothTransition"
        /\ size(call.newGainsIn) # size(call.currentGains))
       => (call.newGains = call.newGainsIn /\ ~call.readPastEnd)
  /\ (call.op = "applyCorrection" /\ size(call.gains) # NumBins)
       => (call.spectrum = call.spectrumIn /\ ~call.readPastEnd)

\* C7 as stated: with adaptiveFactor = 0 every entry of the buffer is the
\* same after applyCorrection as before, for any input spectrum.
C7_Unmodified ==
  (call.op = "applyCorrection" /\ call.adaptiveFactor = 0
     /\ size(call.gains) = NumBins)
    => call.spectrum = call.spectrumIn

\* C7 amended: with adaptiveFactor = 0 the bins 0..fftSize/2 keep their values
\* and every mirrored entry spectrum[fftSize-k], 0 < k < fftSize/2, becomes
\* the conjugate of spectrum[k]; so the whole buffer is unmodified when the
\* input spectrum is conjugate-symmetric.
C7_UnmodifiedHalf ==
  (call.op = "applyCorrection" /\ call.adaptiveFactor = 0
     /\ size(call.gains) = NumBins)
    => /\ \A k \in 0 .. fftSize \div 2 : call.spectrum[k] = call.spectrumIn[k]
       /\ \A k \in 1 .. fftSize \div 2 - 1 :
            call.spectrum[fftSize - k] = conj(call.spectrumIn[k])
       /\ Hermitian(call.spectrumIn) => call.spectrum = call.spectrumIn

\* Factor 0, gains that are not unity, on a symmetric spectrum with an
\* imaginary part.
C7_Witness ==
  /\ call.op = "applyCorrection"
  /\ call.adaptiveFactor = 0
  /\ size(call.gains) = NumBins
  /\ \E k \in DOMAIN call.gains : call.gains[k] # ONE
  /\ Hermitian(call.spectrumIn)
  /\ \E k \in 1 .. fftSize \div 2 - 1 : call.spectrumIn[k][2] # 0

\* The blend of the smoother for one bin, each product rounded.
BlendOf(active, incoming, s) == Mul(active, s) + Mul(incoming, ONE - s)

\* Each finished update left active'[k] = active[k]*s + incoming[k]*(1-s), and
\* so did each direct smoothTransition on vectors of one size.
SmoothedOnce ==
  /\ (call.op \in {"updateEnvironment", "updateCorrectionCurve"}
        /\ ctl.pc = "idle")
       => /\ DOMAIN currentGains = DOMAIN call.active
          /\ \A k \in DOMAIN currentGains :
               currentGains[k] = BlendOf(call.active[k], call.incoming[k],
                                         call.smoothingFactor)
  /\ (call.op = "smoothTransition"
        /\ size(call.newGainsIn) = size(call.currentGains))
       => \A k \in DOMAIN call.newGains :
            call.newGains[k] = BlendOf(call.currentGains[k],
                                       call.newGainsIn[k],
                                       call.smoothingFactor)

C9_ScaledByAdaptiveFactor ==
  call.op = "calculateSimplifiedCorrection" =>
    \A d \in ListeningDurations :
      LET factor == getAdaptiveCompensationFactor(d)
          phonDiff == call.targetPhon - call.currentPhon
          bass == Mul(Mul(phonDiff, 800), factor)
          mid == Mul(Mul(phonDiff, 100), factor)
          treble == Mul(Mul(phonDiff, 300), factor)
          r == call.result
      IN  /\ Abs(bass) <= 60 => r.bassGain = bass
          /\ Abs(mid) <= 20 => r.midGain = mid
          /\ Abs(treble) <= 30 => r.trebleGain = treble
          /\ \A d2 \in ListeningDurations :
               (d <= d2 /\ Abs(bass) <= 60)
                 => Abs(Mul(Mul(phonDiff, 800),
                            getAdaptiveCompensationFactor(d2))) <= Abs(r.bassGain)

\* C10: at a table frequency the interpolated SPL does not decrease when the
\* phon level increases; the correction curve has no negative entry when
\* targetPhon > currentPhon; its entry at 1000 Hz is positive for 40 -> 60.
C10_Monotone ==
  /\ call.op = "interpolatePhonToSPL" =>
       \A p2 \in PhonInputs :
         call.phonLevel < p2
           => call.result <= interpolatePhonToSPL(call.frequency, p2)
  /\ (call.op = "calculateCorrectionCurve"
        /\ call.targetPhon > call.currentPhon)
       => \A i \in DOMAIN call.result : call.result[i] >= 0
  /\ (call.op = "calculateCorrectionCurve" /\ call.currentPhon = 400
        /\ call.targetPhon = 600)
       => (FREQUENCIES[17] = 10000 /\ call.result[17] > 0)

\* The curve for 40 -> 60 phon: 12.5 dB at 1000 Hz.
C10_Witness ==
  /\ call.op = "calculateCorrectionCurve"
  /\ call.currentPhon = 400
  /\ call.targetPhon = 600
  /\ call.result[17] = 125

\* C11: convertToFFTBins returns fftSize/2+1 gains; the active vector
\* currentGains of an AdaptiveLoudnessEQ or a PsychoacousticProcessor has
\* exactly fftSize/2+1 elements of its corrector in every state, whatever
\* updates ran or are running; the buffer applyCorrection works on has
\* fftSize entries; so every gains index the loop reads (0..fftSize/2) and
\* every mirrored index it writes (fftSize/2+1..fftSize-1) exists.
C11_InBounds ==
  /\ call.op = "convertToFFTBins"
       => DOMAIN call.result = 0 .. fftSize \div 2
  /\ host \in {"AdaptiveLoudnessEQ", "Processor"}
       => /\ DOMAIN currentGains = 0 .. fftSize \div 2
          /\ size(currentGains) = NumBins
  /\ call.op = "processAudioBlock"
       => DOMAIN call.spectrum = 0 .. fftSize - 1
  /\ (host = "Processor" /\ aud.pc = "apply")
       => /\ DOMAIN aud.spectrum = 0 .. fftSize - 1
          /\ \A bin \in 0 .. NumBins - 1 :
               /\ bin \in DOMAIN currentGains
               /\ bin \in DOMAIN aud.spectrum
               /\ (bin > 0 /\ bin < NumBins - 1)
                    => /\ fftSize - bin \in DOMAIN aud.spectrum
                       /\ fftSize - bin >= fftSize \div 2 + 1

\* The processor after two finished updates, at the end of a run of
\* applyCorrection that read every gain and wrote every mirrored entry.
C11_Witness ==
  /\ host = "Processor"
  /\ updates >= 2
  /\ ctl.pc = "idle"
  /\ call.op = "updateCorrectionCurve"
  /\ aud.pc = "apply"
  /\ aud.bin = NumBins
  /\ Len(aud.seen) = size(currentGains)

====
